---------------------------- MODULE Spec2Model ----------------------------
(***************************************************************************)
(* The cart and order flow of Proto-Store (src/Proto-Store/src/App.tsx,    *)
(* the App component of lines 272-490).  The state is the component's      *)
(* useState cells, the "cart" key of localStorage and the order requests   *)
(* whose promise has not settled; every event handler is one action.       *)
(***************************************************************************)
EXTENDS Integers, Sequences, FiniteSets, TLC

(***************************************************************************)
(* Bounds.                                                                 *)
(***************************************************************************)
\* product ids of the catalogue used by the cart-manager specification
NumProducts == 2
\* addToCart is not offered once an item holds this quantity; the quantity
\* field is given the texts of -1 .. MaxQty and the empty text
MaxQty == 2
\* the same bound on quantities for the order-flow specification
OrderMaxQty == 1
\* order requests that may be unsettled at the same time
MaxInFlight == 1
\* the same bound for the specification of repeated Pay clicks
MaxPending == 2

(***************************************************************************)
(* JavaScript values a quantity can take: a number that is an integer,     *)
(* NaN (parseInt of an empty or non-numeric text) and null (what           *)
(* JSON.parse gives back for a NaN that JSON.stringify wrote).             *)
(***************************************************************************)
Num(n) == [kind |-> "int", n |-> n]
NaN == [kind |-> "NaN", n |-> 0]
Null == [kind |-> "null", n |-> 0]

\* the text of the quantity input: the decimal text of n, or a text with no
\* leading digits (the empty field)
Digits(n) == [kind |-> "digits", n |-> n]
EmptyText == [kind |-> "empty", n |-> 0]

\* parseInt(e.target.value)
parseInt(text) == IF text.kind = "digits" THEN Num(text.n) ELSE NaN

\* (mutant) the guard written as quantity < 0
LessThanOne_Zero(q) ==
    CASE q.kind = "int" -> q.n < 0
      [] q.kind = "NaN" -> FALSE
      [] q.kind = "null" -> FALSE

\* quantity < 1 : a comparison with NaN is false, null converts to 0
LessThanOne(q) ==
    CASE q.kind = "int" -> q.n < 1
      [] q.kind = "NaN" -> FALSE
      [] q.kind = "null" -> TRUE

\* item.quantity + 1 : NaN + 1 is NaN, null + 1 is 1
PlusOne(q) ==
    CASE q.kind = "int" -> Num(q.n + 1)
      [] q.kind = "NaN" -> NaN
      [] q.kind = "null" -> Num(1)

\* JSON.stringify of a number: NaN is written as null
StringifyNumber(q) == IF q.kind = "NaN" THEN Null ELSE q

(***************************************************************************)
(* Products.  A CartItem is a Product plus a quantity; the product's       *)
(* fields other than the id never change, so an item is [id, quantity]     *)
(* and the price is looked up by id (in whole cents).                      *)
(***************************************************************************)
PriceCents(id) == CASE id = 1 -> 999 [] id = 2 -> 400 [] OTHER -> 550

CartItem(id, q) == [id |-> id, quantity |-> q]

\* cart.find((item) => item.id === id) is defined
Exists(c, id) == \E i \in DOMAIN c : c[i].id = id

(***************************************************************************)
(* localStorage's "cart" key: absent, or the JSON text of an array of      *)
(* items.                                                                  *)
(***************************************************************************)
Absent == [kind |-> "absent", value |-> <<>>]
\* a text that is not JSON
Garbage == [kind |-> "garbage", value |-> <<>>]
Json(items) == [kind |-> "json", value |-> items]

\* JSON.stringify(updatedCart)
Stringify(c) ==
    Json([i \in DOMAIN c |-> CartItem(c[i].id, StringifyNumber(c[i].quantity))])

\* JSON.parse(savedCart) of a text JSON.stringify wrote
Parse(stored) == stored.value

VARIABLES
    phase,            \* "boot": mounted, effects not run; "running";
                      \* "crashed": unmounted after an uncaught error
    cart,             \* useState<CartItem[]>
    showOrderForm,    \* useState(false)
    customerName,     \* useState("")
    deliveryAddress,  \* useState("")
    storage,          \* localStorage "cart"
    inflight,         \* the order requests awaiting their response
    last,             \* the handler that ran last, with its arguments
    adds              \* how often addToCart ran for each product id, while
                      \* nothing but addToCart has touched an empty cart

vars == <<phase, cart, showOrderForm, customerName, deliveryAddress,
          storage, inflight, last, adds>>

\* what the rest of the state was when a request was issued
Snapshot == [cart |-> cart, storage |-> storage,
             customerName |-> customerName, deliveryAddress |-> deliveryAddress]

\* what `last` records of a handler run: the handler, its arguments (the
\* product id, or the position in `inflight` of the request answered; the
\* quantity; the HTTP status) and the text it passed to alert(), if any
Ran(op, id, q, status, alert) ==
    [op |-> op, id |-> id, quantity |-> q, status |-> status, alert |-> alert,
     isPaid |-> FALSE, cartOps |-> FALSE, otherOps |-> FALSE]

\* `adds`: the calls counted so far, or that something else has run
NoAdds == [valid |-> TRUE, count |-> <<>>]
NotOnlyAdds == [valid |-> FALSE, count |-> <<>>]
Count(a, id) == IF id \in DOMAIN a.count THEN a.count[id] ELSE 0
CountAdd(a, id) ==
    IF a.valid
    THEN [a EXCEPT !.count = (id :> Count(a, id) + 1) @@ a.count]
    ELSE a

Init ==
    /\ phase = "boot"
    /\ cart = <<>>
    /\ showOrderForm = FALSE
    /\ customerName = ""
    /\ deliveryAddress = ""
    /\ storage = Absent
    /\ inflight = <<>>
    /\ last = Ran("mount", 0, Null, 0, "")
    /\ adds = NotOnlyAdds

(***************************************************************************)
(* Cart manager (lines 295-340).                                           *)
(***************************************************************************)
\* every request in flight notes that a cart operation ran meanwhile
NoteCartOp(reqs) == [i \in DOMAIN reqs |-> [reqs[i] EXCEPT !.cartOps = TRUE]]
\* ... or that a form field was edited or another order completed
NoteOtherOp(reqs) == [i \in DOMAIN reqs |-> [reqs[i] EXCEPT !.otherOps = TRUE]]

\* the cart after the effect of lines 296-301, c being the cart before it
loadedCart(stored, c) == IF stored.kind # "absent" THEN Parse(stored) ELSE c

\* JSON.parse(savedCart) throws a SyntaxError
Throws(stored) == stored.kind = "garbage"

\* useEffect of lines 296-301, run once after the first render; an error
\* thrown in it is caught by nothing and React unmounts the page
LoadCart ==
    /\ phase = "boot"
    /\ IF Throws(storage)
       THEN phase' = "crashed" /\ cart' = cart
       ELSE phase' = "running" /\ cart' = loadedCart(storage, cart)
    /\ last' = Ran("loadCart", 0, Null, 0, "")
    /\ adds' = IF cart' = <<>> THEN NoAdds ELSE NotOnlyAdds
    /\ UNCHANGED <<showOrderForm, customerName, deliveryAddress, storage, inflight>>

\* saveCart(updatedCart)
saveCart(updatedCart) ==
    /\ cart' = updatedCart
    /\ storage' = Stringify(updatedCart)

\* (mutant) a new product is put in front of the cart
addToCartResult_Prepends(c, product) ==
    IF Exists(c, product)
    THEN [i \in DOMAIN c |->
            IF c[i].id = product
            THEN CartItem(c[i].id, PlusOne(c[i].quantity))
            ELSE c[i]]
    ELSE <<CartItem(product, Num(1))>> \o c

\* (mutant) addToCart without the look-up of an existing item
addToCartResult_Appends(c, product) == Append(c, CartItem(product, Num(1)))

\* the array addToCart hands to saveCart
addToCartResult(c, product) ==
    IF Exists(c, product)
    THEN [i \in DOMAIN c |->
            IF c[i].id = product
            THEN CartItem(c[i].id, PlusOne(c[i].quantity))
            ELSE c[i]]
    ELSE Append(c, CartItem(product, Num(1)))

addToCart(product) ==
    /\ phase = "running"
    /\ saveCart(addToCartResult(cart, product))
    /\ inflight' = NoteCartOp(inflight)
    /\ last' = Ran("addToCart", product, Null, 0, "")
    /\ adds' = CountAdd(adds, product)
    /\ UNCHANGED <<phase, showOrderForm, customerName, deliveryAddress>>

\* the array updateQuantity hands to saveCart
updateQuantityResult(c, id, quantity) ==
    [i \in DOMAIN c |->
        IF c[i].id = id THEN CartItem(c[i].id, quantity) ELSE c[i]]

updateQuantity(id, quantity) ==
    /\ phase = "running"
    /\ IF LessThanOne(quantity)
       THEN UNCHANGED <<cart, storage, inflight>>
       ELSE /\ saveCart(updateQuantityResult(cart, id, quantity))
            /\ inflight' = NoteCartOp(inflight)
    /\ last' = Ran("updateQuantity", id, quantity, 0, "")
    /\ adds' = NotOnlyAdds
    /\ UNCHANGED <<phase, showOrderForm, customerName, deliveryAddress>>

\* (mutant) the filter applied to the position instead of the product id
removeFromCartResult_ByPosition(c, id) ==
    [k \in 1 .. (IF id \in DOMAIN c THEN Len(c) - 1 ELSE Len(c)) |->
        c[IF k < id THEN k ELSE k + 1]]

\* cart.filter((item) => item.id !== id)
removeFromCartResult(c, id) == SelectSeq(c, LAMBDA item : item.id # id)

removeFromCart(id) ==
    /\ phase = "running"
    /\ saveCart(removeFromCartResult(cart, id))
    /\ inflight' = NoteCartOp(inflight)
    /\ last' = Ran("removeFromCart", id, Null, 0, "")
    /\ adds' = NotOnlyAdds
    /\ UNCHANGED <<phase, showOrderForm, customerName, deliveryAddress>>

\* number arithmetic of the reduce: NaN absorbs, null counts as 0
Times(cents, q) ==
    CASE q.kind = "int" -> Num(cents * q.n)
      [] q.kind = "NaN" -> NaN
      [] q.kind = "null" -> Num(0)

Plus(a, b) == IF a.kind = "NaN" \/ b.kind = "NaN" THEN NaN ELSE Num(a.n + b.n)

RECURSIVE reduceTotal(_, _)
reduceTotal(c, sum) ==
    IF c = <<>> THEN sum
    ELSE reduceTotal(Tail(c), Plus(sum, Times(PriceCents(Head(c).id), Head(c).quantity)))

\* const total = cart.reduce(..., 0), in cents
total(c) == reduceTotal(c, Num(0))

\* the page is loaded again: a new App is mounted, the promises of the old
\* page are gone, localStorage stays
Reload ==
    /\ phase \in {"running", "crashed"}
    /\ phase' = "boot"
    /\ cart' = <<>>
    /\ showOrderForm' = FALSE
    /\ customerName' = ""
    /\ deliveryAddress' = ""
    /\ inflight' = <<>>
    /\ last' = Ran("mount", 0, Null, 0, "")
    /\ adds' = NotOnlyAdds
    /\ UNCHANGED storage

(***************************************************************************)
(* The cart manager driven through its operations, with any argument.      *)
(***************************************************************************)
ProductIds == 1 .. NumProducts
FieldTexts == {Digits(n) : n \in -1 .. MaxQty} \cup {EmptyText}

\* quantity of the item with this id, Num(0) when there is none
QuantityOf(c, id) ==
    IF Exists(c, id)
    THEN c[CHOOSE i \in DOMAIN c : c[i].id = id].quantity
    ELSE Num(0)

\* the model stops adding at the bound
Below(c, id, bound) ==
    LET q == QuantityOf(c, id) IN q.kind = "int" => q.n < bound

NextCart ==
    \/ LoadCart
    \/ \E product \in ProductIds :
          Below(cart, product, MaxQty) /\ addToCart(product)
    \/ \E id \in ProductIds, text \in FieldTexts :
          updateQuantity(id, parseInt(text))
    \/ \E id \in ProductIds : removeFromCart(id)
    \/ Reload

SpecCart == Init /\ [][NextCart]_vars

\* the same, started with whatever the "cart" key may hold when the page is
\* opened: nothing, a snapshot, or a text that is not JSON
InitForeign ==
    /\ phase = "boot"
    /\ cart = <<>>
    /\ showOrderForm = FALSE
    /\ customerName = ""
    /\ deliveryAddress = ""
    /\ storage \in {Absent, Garbage, Stringify(<<CartItem(1, Num(1))>>)}
    /\ inflight = <<>>
    /\ last = Ran("mount", 0, Null, 0, "")
    /\ adds = NotOnlyAdds

SpecForeign == InitForeign /\ [][NextCart]_vars

(***************************************************************************)
(* Order form and handlePayment (lines 342-377, 442-485).                  *)
(***************************************************************************)
\* onClick of the "Place Order" button, rendered while cart.length > 0
openOrderForm ==
    /\ phase = "running"
    /\ Len(cart) > 0
    /\ showOrderForm' = TRUE
    /\ last' = Ran("openOrderForm", 0, Null, 0, "")
    /\ adds' = NotOnlyAdds
    /\ UNCHANGED <<phase, cart, customerName, deliveryAddress, storage, inflight>>

\* onChange of the "Customer Name" field, rendered while showOrderForm
setCustomerName(text) ==
    /\ phase = "running"
    /\ showOrderForm
    /\ customerName' = text
    /\ inflight' = NoteOtherOp(inflight)
    /\ last' = Ran("setCustomerName", 0, Null, 0, "")
    /\ adds' = NotOnlyAdds
    /\ UNCHANGED <<phase, cart, showOrderForm, deliveryAddress, storage>>

\* onChange of the "Delivery Address" field, rendered while showOrderForm
setDeliveryAddress(text) ==
    /\ phase = "running"
    /\ showOrderForm
    /\ deliveryAddress' = text
    /\ inflight' = NoteOtherOp(inflight)
    /\ last' = Ran("setDeliveryAddress", 0, Null, 0, "")
    /\ adds' = NotOnlyAdds
    /\ UNCHANGED <<phase, cart, showOrderForm, customerName, storage>>

\* total.toFixed(2): the decimal text of an amount of cents, "NaN" for NaN
toFixed2(t) ==
    IF t.kind = "NaN"
    THEN [kind |-> "NaN", whole |-> 0, frac |-> 0]
    ELSE [kind |-> "decimal", whole |-> t.n \div 100, frac |-> t.n % 100]

\* the orderData object of lines 349-358
orderData(c, name, address) ==
    [customerName |-> name,
     deliveryAddress |-> address,
     items |-> [i \in DOMAIN c |->
                  [product_id |-> c[i].id,
                   quantity |-> c[i].quantity,
                   price |-> PriceCents(c[i].id)]],
     total |-> toFixed2(total(c))]

\* the request as it travels: orderData, and what the state was when it left
Request(data, snapshot) ==
    [customerName |-> data.customerName,
     deliveryAddress |-> data.deliveryAddress,
     items |-> data.items,
     total |-> data.total,
     before |-> snapshot,
     cartOps |-> FALSE, otherOps |-> FALSE]

\* onClick of "Pay", rendered while showOrderForm, up to the await of line
\* 361; isPaid is the answer to window.confirm
\* (mutant) handlePayment without the return on a declined confirmation
Aborts_Never(isPaid) == FALSE

\* (mutant) handlePayment returning while an earlier request is unsettled
Aborts_WhileInFlight(isPaid) == ~isPaid \/ inflight # <<>>

\* if (!isPaid) return alert("Payment failed")
Aborts(isPaid) == ~isPaid

handlePayment(isPaid) ==
    /\ phase = "running"
    /\ showOrderForm
    /\ IF Aborts(isPaid)
       THEN /\ last' = [Ran("handlePayment", 0, Null, 0, "Payment failed")
                          EXCEPT !.isPaid = isPaid]
            /\ UNCHANGED inflight
       ELSE LET req == Request(orderData(cart, customerName, deliveryAddress), Snapshot)
            IN /\ inflight' = Append(inflight, req)
               /\ last' = [Ran("handlePayment", 0, Null, 0, "")
                             EXCEPT !.isPaid = isPaid]
    /\ adds' = NotOnlyAdds
    /\ UNCHANGED <<phase, cart, showOrderForm, customerName, deliveryAddress, storage>>

\* axios resolves for a 2xx status and rejects otherwise; status 0 stands for
\* a request that got no response at all
Resolves(status) == 200 <= status /\ status < 300

Without(reqs, i) == SubSeq(reqs, 1, i - 1) \o SubSeq(reqs, i + 1, Len(reqs))

\* handlePayment from the await of line 361 on, for the i-th request in flight
\* (mutant) the success branch taken for every response axios resolves
Created_AnyResolved(status) == Resolves(status)

\* the try block reaches the body of if (res.status === 201)
Created(status) == Resolves(status) /\ status = 201

\* (mutant) the success branch without localStorage.removeItem("cart")
onCreated_KeepsStorage ==
    /\ cart' = <<>>
    /\ showOrderForm' = FALSE
    /\ customerName' = ""
    /\ deliveryAddress' = ""
    /\ UNCHANGED storage

\* the state changes of lines 367-371
onCreated ==
    /\ cart' = <<>>
    /\ storage' = Absent
    /\ showOrderForm' = FALSE
    /\ customerName' = ""
    /\ deliveryAddress' = ""

orderResponse(i, status) ==
    /\ phase = "running"
    /\ i \in DOMAIN inflight
    /\ IF Created(status)
       THEN /\ onCreated
            /\ inflight' = NoteOtherOp(Without(inflight, i))
            /\ last' = [Ran("orderResponse", i, Null, status,
                            "Order placed successfully!")
                          EXCEPT !.cartOps = inflight[i].cartOps,
                                 !.otherOps = inflight[i].otherOps]
       ELSE /\ inflight' = Without(inflight, i)
            /\ last' = [Ran("orderResponse", i, Null, status,
                            IF Resolves(status) THEN "" ELSE "Error creating order")
                          EXCEPT !.cartOps = inflight[i].cartOps,
                                 !.otherOps = inflight[i].otherOps]
            /\ UNCHANGED <<cart, storage, showOrderForm, customerName, deliveryAddress>>
    /\ adds' = NotOnlyAdds
    /\ UNCHANGED phase

(***************************************************************************)
(* The page as the user drives it: every handler is reached through the    *)
(* element that carries it, so the quantity field and the delete button    *)
(* exist for the items of the cart only.                                   *)
(***************************************************************************)
\* the catalogue the products request returned: one product
OrderCatalogue == {1}
OrderFieldTexts == {Digits(n) : n \in 0 .. OrderMaxQty} \cup {EmptyText}
Names == {"", "Ann"}
Addresses == {"", "1 Elm St"}
Statuses == {201, 200, 400, 500, 0}

Next ==
    \/ LoadCart
    \/ \E product \in OrderCatalogue :
          Below(cart, product, OrderMaxQty) /\ addToCart(product)
    \/ \E i \in DOMAIN cart, text \in OrderFieldTexts :
          updateQuantity(cart[i].id, parseInt(text))
    \/ \E i \in DOMAIN cart : removeFromCart(cart[i].id)
    \/ openOrderForm
    \/ \E text \in Names : setCustomerName(text)
    \/ \E text \in Addresses : setDeliveryAddress(text)
    \/ \E isPaid \in BOOLEAN :
          (isPaid => Len(inflight) < MaxInFlight) /\ handlePayment(isPaid)
    \/ \E i \in DOMAIN inflight, status \in Statuses : orderResponse(i, status)
    \/ Reload

Spec == Init /\ [][Next]_vars

\* the same page with the quantity and form fields left alone, and more
\* requests allowed in flight
NextPay ==
    \/ LoadCart
    \/ \E product \in OrderCatalogue :
          Below(cart, product, MaxQty) /\ addToCart(product)
    \/ \E i \in DOMAIN cart : removeFromCart(cart[i].id)
    \/ openOrderForm
    \/ \E isPaid \in BOOLEAN :
          (isPaid => Len(inflight) < MaxPending) /\ handlePayment(isPaid)
    \/ \E i \in DOMAIN inflight, status \in Statuses : orderResponse(i, status)
    \/ Reload

SpecPay == Init /\ [][NextPay]_vars

(***************************************************************************)
(* Properties.                                                             *)
(***************************************************************************)
IsWholeAtLeastOne(q) == q.kind = "int" /\ q.n >= 1

NoDuplicateIds(c) == \A i, j \in DOMAIN c : c[i].id = c[j].id => i = j

\* the stored snapshot and the in-memory cart agree
Agree ==
    \/ storage.kind = "json" /\ Parse(storage) = cart
    \/ storage.kind = "absent" /\ cart = <<>>

\* C1: whatever the quantity field is given (any integer text, or a text
\* that parses to NaN), every item of the cart has a quantity that is an
\* integer >= 1.
C1_QuantityAtLeastOne ==
    \A i \in DOMAIN cart : IsWholeAtLeastOne(cart[i].quantity)

\* C2: once the response with status 201 has been handled, the cart is
\* empty, the "cart" key is absent, and the customer name and the delivery
\* address are empty.
C2_CreatedClearsState ==
    (last.op = "orderResponse" /\ last.status = 201) =>
        /\ cart = <<>>
        /\ storage = Absent
        /\ customerName = ""
        /\ deliveryAddress = ""

C2_CreatedSeen ==
    /\ last.op = "orderResponse"
    /\ last.status = 201
    /\ cart = <<>>
    /\ storage = Absent

\* C3 as stated: when a request ends with anything but 201 and no cart
\* operation ran while it was in flight, the cart, the stored snapshot, the
\* customer name and the delivery address are what they were when the
\* request was issued.
C3_FailureLeavesStateAsBefore ==
    [][\A i \in DOMAIN inflight :
          (/\ last'.op = "orderResponse"
           /\ last'.id = i
           /\ last'.status # 201
           /\ ~inflight[i].cartOps)
          => Snapshot' = inflight[i].before]_vars

\* C3 as amended: the same, provided also that no form field was edited and
\* no other order was completed while the request was in flight.
C3_FailureLeavesQuietStateAsBefore ==
    [][\A i \in DOMAIN inflight :
          (/\ last'.op = "orderResponse"
           /\ last'.id = i
           /\ last'.status # 201
           /\ ~inflight[i].cartOps
           /\ ~inflight[i].otherOps)
          => Snapshot' = inflight[i].before]_vars

C3_QuietFailureSeen ==
    /\ last.op = "orderResponse"
    /\ last.status \in {200, 400, 500, 0}
    /\ ~last.cartOps
    /\ ~last.otherOps
    /\ cart # <<>>
    /\ customerName # ""
    /\ deliveryAddress # ""

\* C4: every response that is not a 201, thrown or resolved, raises a
\* failure notification.
C4_FailureIsSignalled ==
    (last.op = "orderResponse" /\ last.status # 201) =>
        last.alert = "Error creating order"

\* C5: the Pay button is there only while the cart holds an item, and every
\* order request carries at least one item.
C5_PayNeedsItems ==
    /\ (phase = "running" /\ showOrderForm) => Len(cart) > 0
    /\ \A i \in DOMAIN inflight : Len(inflight[i].items) > 0

\* C6: a declined confirmation issues no request and changes neither the
\* cart, the stored snapshot, the form's visibility, the customer name nor
\* the delivery address; and a request is issued only by a run of
\* handlePayment whose confirmation was accepted.
C6_DeclineAborts ==
    [][/\ (last'.op = "handlePayment" /\ ~last'.isPaid) =>
              UNCHANGED <<cart, storage, showOrderForm, customerName,
                          deliveryAddress, inflight>>
       /\ Len(inflight') > Len(inflight) =>
              (last'.op = "handlePayment" /\ last'.isPaid)]_vars

C6_DeclineSeen ==
    /\ last.op = "handlePayment"
    /\ ~last.isPaid
    /\ last.alert = "Payment failed"
    /\ cart # <<>>
    /\ customerName # ""
    /\ inflight = <<>>

\* C7: the cart never holds two items with the same product id, and
\* addToCart of an id that is present leaves the number of items as it was
\* and raises that item's quantity by exactly 1.
C7_UniqueIdsAndIncrement ==
    [][/\ NoDuplicateIds(cart')
       /\ \A id \in ProductIds :
            (last'.op = "addToCart" /\ last'.id = id /\ Exists(cart, id)) =>
                /\ Len(cart') = Len(cart)
                /\ QuantityOf(cart, id).kind = "int"
                /\ QuantityOf(cart', id) = Num(QuantityOf(cart, id).n + 1)]_vars

\* the first half of C7 alone: no two items share a product id
C7_UniqueIds == NoDuplicateIds(cart)

\* C8: after addToCart calls alone, applied to an empty cart, the cart has
\* exactly one item for each product id that was added, and its quantity is
\* the number of calls made with that id.
C8_AddsAreCounted ==
    adds.valid =>
        /\ NoDuplicateIds(cart)
        /\ {cart[i].id : i \in DOMAIN cart} = DOMAIN adds.count
        /\ \A i \in DOMAIN cart : cart[i].quantity = Num(adds.count[cart[i].id])

C8_SeveralAddsSeen ==
    /\ adds.valid
    /\ Len(cart) = 2
    /\ \E i \in DOMAIN cart : adds.count[cart[i].id] = 2

\* C9: updateQuantity with a quantity below 1 changes neither the cart nor
\* the stored "cart" value, for every id.
C9_LowQuantityRejected ==
    [][(/\ last'.op = "updateQuantity"
        /\ last'.quantity.kind = "int"
        /\ last'.quantity.n < 1)
       => (cart' = cart /\ storage' = storage)]_vars

C9_LowQuantitySeen ==
    /\ last.op = "updateQuantity"
    /\ last.quantity = Num(0)
    /\ Exists(cart, last.id)
    /\ storage.kind = "json"

\* C10: once the start-up load has run, the stored snapshot equals the
\* in-memory cart, or the key is absent and the cart is empty.
C10_StorageAgreesWithCart == phase = "running" => Agree

\* C11: updateQuantity with a quantity >= 1 and an id that matches no item
\* changes neither the cart nor the stored "cart" value: a key that was
\* absent stays absent.
C11_UnknownIdIsNoOp ==
    [][(/\ last'.op = "updateQuantity"
        /\ IsWholeAtLeastOne(last'.quantity)
        /\ ~Exists(cart, last'.id))
       => (cart' = cart /\ storage' = storage)]_vars

\* C12: removeFromCart of an id that is not in the cart leaves the cart as
\* it is, and a second removeFromCart of the same id right after the first
\* changes neither the cart nor the stored snapshot.
C12_RemoveIsIdempotent ==
    [][last'.op = "removeFromCart" =>
          /\ ~Exists(cart, last'.id) => cart' = cart
          /\ (last.op = "removeFromCart" /\ last.id = last'.id) =>
                (cart' = cart /\ storage' = storage)]_vars

C12_RemovedSeen ==
    /\ last.op = "removeFromCart"
    /\ ~Exists(cart, last.id)
    /\ cart # <<>>
    /\ storage = Stringify(cart)

\* the sum of the first n amounts
RECURSIVE SumOver(_, _)
SumOver(amounts, n) == IF n = 0 THEN 0 ELSE amounts[n] + SumOver(amounts, n - 1)

\* unit price times quantity, in cents, of every item of a cart
CartAmounts(c) == [i \in DOMAIN c |-> PriceCents(c[i].id) * c[i].quantity.n]

\* the same of every item listed in an order
OrderAmounts(items) == [i \in DOMAIN items |-> items[i].price * items[i].quantity.n]

DecimalText(cents) == [kind |-> "decimal", whole |-> cents \div 100, frac |-> cents % 100]

\* C13: the total is the sum over the items of unit price times quantity (in
\* cents), 0 for an empty cart and never negative; and the total of every
\* order sent is that sum over the items listed in the same order, which are
\* the items of the cart when Pay was confirmed.
C13_TotalIsSum ==
    /\ total(cart) = Num(SumOver(CartAmounts(cart), Len(cart)))
    /\ total(cart).n >= 0
    /\ cart = <<>> => total(cart) = Num(0)
    /\ \A i \in DOMAIN inflight :
         /\ inflight[i].total =
               DecimalText(SumOver(OrderAmounts(inflight[i].items),
                                   Len(inflight[i].items)))
         /\ Len(inflight[i].items) = Len(inflight[i].before.cart)
         /\ \A k \in DOMAIN inflight[i].items :
               /\ inflight[i].items[k].product_id = inflight[i].before.cart[k].id
               /\ inflight[i].items[k].quantity = inflight[i].before.cart[k].quantity

\* C14: the snapshot written by the last addToCart, updateQuantity or
\* removeFromCart, read by the start-up load of a new session (whose cart is
\* the empty default), gives a cart equal to the one that was saved.
C14_ReloadGivesSavedCart ==
    last.op \in {"addToCart", "updateQuantity", "removeFromCart"} =>
        (~Throws(storage) /\ loadedCart(storage, <<>>) = cart)

\* C16: the start-up load never ends in the crashed page, whatever the
\* "cart" key holds, and with the key absent the session starts with an
\* empty cart.
C16_LoadTolerates ==
    /\ phase # "crashed"
    /\ (last.op = "loadCart" /\ storage.kind = "absent") => cart = <<>>

\* C15: every confirmed Pay issues a request carrying the items of the cart,
\* whatever is already in flight: nothing guards against a second request
\* while the first is unsettled.
C15_EveryConfirmedPayPosts ==
    [][(last'.op = "handlePayment" /\ last'.isPaid) =>
          /\ Len(inflight') = Len(inflight) + 1
          /\ SubSeq(inflight', 1, Len(inflight)) = inflight
          /\ LET sent == inflight'[Len(inflight')].items
             IN /\ Len(sent) = Len(cart)
                /\ \A k \in DOMAIN cart :
                      /\ sent[k].product_id = cart[k].id
                      /\ sent[k].quantity = cart[k].quantity]_vars

\* two requests in flight for the same, unchanged cart
C15_TwoInFlightSeen ==
    /\ Len(inflight) = 2
    /\ inflight[1].items = inflight[2].items
    /\ Len(inflight[1].items) > 0
    /\ ~inflight[1].cartOps
    /\ inflight[1].before.cart = cart
    /\ last.op = "handlePayment"
    /\ last.isPaid

\* C17: the handler of a 201 discards only what was sent: every item of the
\* cart it clears is listed, with the same quantity, in the order that was
\* answered.
C17_ClearsOnlyWhatWasSent ==
    [][\A i \in DOMAIN inflight :
          (last'.op = "orderResponse" /\ last'.id = i /\ last'.status = 201) =>
              \A k \in DOMAIN cart :
                  \E j \in DOMAIN inflight[i].items :
                      /\ inflight[i].items[j].product_id = cart[k].id
                      /\ inflight[i].items[j].quantity = cart[k].quantity]_vars

\* the items of c before position i that carry the product id
Earlier(c, i, id) == {j \in 1 .. i : c[j].id = id}

\* c and d have the same length and differ at most in the quantity of the
\* item with the product id
OnlyQuantityOf(c, d, id) ==
    /\ Len(d) = Len(c)
    /\ \A i \in DOMAIN c :
          /\ d[i].id = c[i].id
          /\ c[i].id # id => d[i] = c[i]

=============================================================================
